---- MODULE Spec2Model ----
(***************************************************************************)
(* One run of the Streamlit script Streamlit_XML_AI_Agent.py: the AI       *)
(* engine is loaded, an uploaded XML text is parsed and cleaned by         *)
(* generate_clean_xml_from_root, the summary / download / mapping blocks   *)
(* run when a cleaned document exists, and the AI button may be pressed.   *)
(*                                                                         *)
(* Text is modelled by what the code does with it.  An attribute string    *)
(* is the sequence of pieces between its commas (what text.split(",")      *)
(* returns), so the empty or missing attribute is <<"">>.  A dependent's   *)
(* id and name are sequences of characters, so that the signature          *)
(* f"{id}:{name}", its lexicographic sort and its split at the first ":"   *)
(* are computed rather than assumed.  A Python None is <<>>, a set value x *)
(* is <<x>>.                                                               *)
(***************************************************************************)
EXTENDS Integers, Sequences, FiniteSets, TLC

VARIABLES
    pc,                 \* position of the script
    secrets,            \* st.secrets and whether ai_engine imports
    llm,                \* the AIEngine object, or None
    uploaded,           \* the uploaded file: None, or the text as a record
    original_root,      \* ET.fromstring(xml_text), or None
    original_options,   \* Step 1 records
    flat,               \* Step 2 entries
    value_to_dep_map,   \* value -> entries carrying it
    forced_singletons,  \* values carried by more than one entry
    groups,             \* key -> bucket
    appearance_order,   \* counter of buckets created
    placed,             \* the key computed by each finished iteration of the bucketing loop
    groups_ordered,     \* the sorted buckets
    cleaned_xml,        \* None, or the cleaned document
    error,              \* None, or the exception shown by st.error at line 222
    summary,            \* None, or the before/after table
    download,           \* whether the cleaned-XML download button was rendered
    export_rows,        \* None, or the rows of the mapping report
    ai_out              \* what the AI block displayed

vars == <<pc, secrets, llm, uploaded, original_root, original_options, flat,
          value_to_dep_map, forced_singletons, groups, appearance_order, placed,
          groups_ordered, cleaned_xml, error, summary, download, export_rows, ai_out>>

-----------------------------------------------------------------------------
(* Bounds of the model *)

\* <option> children of an uploaded root
MaxOptions == 2

\* <option> children of an uploaded root in the runs that vary the AI layer
MaxOptionsAI == 1

None == <<>>
Some(x) == <<x>>

Range(s) == {s[i] : i \in DOMAIN s}

SeqsUpTo(S, n) == UNION {[1..k -> S] : k \in 0..n}

-----------------------------------------------------------------------------
(* Text *)

\* str.strip() on the pieces the inputs are built from
Strip(t) ==
    CASE t = " "  -> ""
      [] t = " b" -> "b"
      [] t = " c" -> "c"
      [] OTHER    -> t

RECURSIVE DropEmpty(_)
DropEmpty(s) ==
    IF s = <<>> THEN <<>>
    ELSE IF Strip(Head(s)) = "" THEN DropEmpty(Tail(s))
         ELSE <<Strip(Head(s))>> \o DropEmpty(Tail(s))

\* _split_field: stripped, non-empty tokens; [] for an empty or missing attribute
_split_field(text) ==
    IF text = <<"">> THEN <<>> ELSE DropEmpty(text)

\* [t.strip() for t in text.split(",")]: empty tokens are kept
SplitStrip(text) == [i \in DOMAIN text |-> Strip(text[i])]

\* ",".join(tokens), as the pieces between the commas of the result
Join(tokens) == IF tokens = <<>> THEN <<"">> ELSE tokens

\* code points of the characters used in dependents' ids and names
CharRank(c) ==
    CASE c = "5" -> 53
      [] c = "7" -> 55
      [] c = "9" -> 57
      [] c = ":" -> 58
      [] c = "A" -> 65
      [] c = "B" -> 66

RECURSIVE StrLess(_, _)
\* Python's < on strings
StrLess(s, t) ==
    IF t = <<>> THEN FALSE
    ELSE IF s = <<>> THEN TRUE
    ELSE IF Head(s) = Head(t) THEN StrLess(Tail(s), Tail(t))
    ELSE CharRank(Head(s)) < CharRank(Head(t))

RECURSIVE Insert(_, _)
Insert(x, s) ==
    IF s = <<>> THEN <<x>>
    ELSE IF StrLess(x, Head(s)) THEN <<x>> \o s
    ELSE <<Head(s)>> \o Insert(x, Tail(s))

RECURSIVE sorted(_)
\* sorted(list of strings)
sorted(s) == IF s = <<>> THEN <<>> ELSE Insert(Head(s), sorted(Tail(s)))

\* f"{d.get('id')}:{d.get('name')}"
DepSig(d) == d.id \o <<":">> \o d.name

RECURSIVE FirstColon(_, _)
FirstColon(s, i) ==
    IF i > Len(s) THEN 0 ELSE IF s[i] = ":" THEN i ELSE FirstColon(s, i + 1)

\* dep.split(":", 1), rebuilt as the emitted <dependent> element
SplitSig(sig) ==
    LET c == FirstColon(sig, 1) IN
    [id |-> SubSeq(sig, 1, c - 1), name |-> SubSeq(sig, c + 1, Len(sig))]

\* a signature by id alone: every label replaced by the same one
SignatureNoLabel(opt) ==
    sorted([i \in DOMAIN opt.dependents |-> opt.dependents[i].id \o <<":">> \o <<"A">>])

\* sorted([f"{id}:{name}" for d in opt.findall("dependent")])
Signature(opt) == sorted([i \in DOMAIN opt.dependents |-> DepSig(opt.dependents[i])])

-----------------------------------------------------------------------------
(* Inputs *)

D5A == [id |-> <<"5">>, name |-> <<"A">>]
D5B == [id |-> <<"5">>, name |-> <<"B">>]
D7A == [id |-> <<"7">>, name |-> <<"A">>]
D9A == [id |-> <<"9">>, name |-> <<"A">>]

\* name attributes: missing; one name with padding and an empty piece; three
\* names, one of them repeated
NameAttrs == {<<"">>, <<" c", " ">>, <<"a", " b", "a">>}

\* value attributes: missing; two values; one value
ValueAttrs == {<<"">>, <<"1", "2">>, <<"3">>}

\* <dependent> children in document order: the same two dependents in both
\* orders, the same ids with another label for id 5, and an unrelated one
DepLists == {<<D7A, D5A>>, <<D5A, D7A>>, <<D7A, D5B>>, <<D9A>>}

Options == [name : NameAttrs, value : ValueAttrs, dependents : DepLists]

Malformed == [wellformed |-> FALSE, options |-> <<>>]

Document(opts) == [wellformed |-> TRUE, options |-> opts]

\* an uploaded text: malformed, or a <dependents> root with its <option> children
Uploads == {Malformed} \cup {Document(o) : o \in SeqsUpTo(Options, MaxOptions)}

\* the uploads of the runs that vary the AI layer: at most one <option>
UploadsAI == {Malformed} \cup {Document(o) : o \in SeqsUpTo(Options, MaxOptionsAI)}

\* st.secrets, and whether "from ai_engine import AIEngine; AIEngine()" succeeds
AllSecrets == [import_ok : BOOLEAN, OPENAI_API_KEY : BOOLEAN, GROK_API_KEY : BOOLEAN]

\* what a chat.completions.create call and the read of its content can give
AIOutcomes == {"raises", "text", "errortext", "nocontent"}

-----------------------------------------------------------------------------
(* generate_clean_xml_from_root, Steps 1 to 4 *)

\* Step 1: one record per <option>
OptionRecord(opt) ==
    [names      |-> _split_field(opt.name),
     values     |-> _split_field(opt.value),
     deps_key   |-> Signature(opt),
     dependents |-> Signature(opt)]

\* Step 2, line 119: the value paired with the name at position idx
\* (raises IndexError when values is empty)
CanPair(record) == record.names = <<>> \/ record.values # <<>>

PairValue(record, idx) ==
    IF idx <= Len(record.values) THEN record.values[idx]
    ELSE record.values[Len(record.values)]

Explode(record) ==
    [idx \in DOMAIN record.names |->
        [name       |-> record.names[idx],
         value      |-> PairValue(record, idx),
         deps_key   |-> record.deps_key,
         dependents |-> record.dependents]]

RECURSIVE FlattenAll(_)
FlattenAll(records) ==
    IF records = <<>> THEN <<>>
    ELSE Explode(Head(records)) \o FlattenAll(Tail(records))

\* value_to_dep_map.setdefault(val, []).append(entry), over all entries
ValueMap(entries) ==
    [v \in {entries[i].value : i \in DOMAIN entries} |->
        SelectSeq(entries, LAMBDA e : e.value = v)]

\* a Step 3 that forces no split
NoForcedSingletons(map) == {}

\* Step 3: values carried by more than one entry
ForcedSingletons(map) == {v \in DOMAIN map : Len(map[v]) > 1}

\* a FORCE key that leaves the dependents out
GroupKeyByValue(entry, forced) ==
    IF entry.value \in forced
    THEN [kind |-> "FORCE", value |-> entry.value, deps_key |-> <<>>]
    ELSE [kind |-> "NORMAL", value |-> "", deps_key |-> entry.deps_key]

\* Step 4, lines 142-147: the bucket key of an entry
GroupKey(entry, forced) ==
    IF entry.value \in forced
    THEN [kind |-> "FORCE", value |-> entry.value, deps_key |-> entry.deps_key]
    ELSE [kind |-> "NORMAL", value |-> "", deps_key |-> entry.deps_key]

\* lines 149-159: one iteration of the bucketing loop
AddToGroups(g, key, entry, order) ==
    LET base == IF key \in DOMAIN g THEN g[key]
                ELSE [names |-> <<>>, values |-> <<>>,
                      dependents |-> entry.dependents, order |-> order]
    IN  [k \in DOMAIN g \cup {key} |->
            IF k = key
            THEN [base EXCEPT !.names = Append(@, entry.name),
                              !.values = Append(@, entry.value)]
            ELSE g[k]]

-----------------------------------------------------------------------------
(* generate_clean_xml_from_root, sorting and tree building *)

\* line 163 reads kv[1]["first_appearance"] of every bucket it compares
SortKeyExists(g) == \A k \in DOMAIN g : "first_appearance" \in DOMAIN g[k]

RECURSIVE SortedByFirstAppearance(_)
SortedByFirstAppearance(g) ==
    IF DOMAIN g = {} THEN <<>>
    ELSE LET k == CHOOSE x \in DOMAIN g :
                    \A y \in DOMAIN g : g[x].first_appearance <= g[y].first_appearance
         IN  <<g[k]>> \o SortedByFirstAppearance([x \in DOMAIN g \ {k} |-> g[x]])

RECURSIVE Dedup(_, _)
\* lines 172-177: first occurrences, in order
Dedup(names, seen) ==
    IF names = <<>> THEN <<>>
    ELSE IF Head(names) \in seen THEN Dedup(Tail(names), seen)
    ELSE <<Head(names)>> \o Dedup(Tail(names), seen \cup {Head(names)})

\* lines 168-193: the <option> built from one bucket
BuildOption(data) ==
    [name       |-> Join(Dedup(data.names, {})),
     value      |-> Join(data.values),
     dependents |-> [i \in DOMAIN data.dependents |-> SplitSig(data.dependents[i])]]

\* lines 165-195: the new root
BuildTree(ordered) ==
    [wellformed |-> TRUE, options |-> [i \in DOMAIN ordered |-> BuildOption(ordered[i])]]

RECURSIVE BucketAll(_, _, _, _)
\* lines 137-159: the whole bucketing loop
BucketAll(entries, forced, g, order) ==
    IF entries = <<>> THEN g
    ELSE LET key == GroupKey(Head(entries), forced) IN
         BucketAll(Tail(entries), forced,
                   AddToGroups(g, key, Head(entries), order),
                   IF key \in DOMAIN g THEN order ELSE order + 1)

\* generate_clean_xml_from_root on a parsed root: the cleaned document, or
\* None when the call raises
CleanOf(root) ==
    LET records == [i \in DOMAIN root.options |-> OptionRecord(root.options[i])] IN
    IF \E i \in DOMAIN records : ~CanPair(records[i]) THEN None
    ELSE LET entries == FlattenAll(records)
             g == BucketAll(entries, ForcedSingletons(ValueMap(entries)), <<>>, 0)
         IN  IF SortKeyExists(g) THEN Some(BuildTree(SortedByFirstAppearance(g)))
             ELSE None

-----------------------------------------------------------------------------
(* Summary and mapping report *)

RECURSIVE SumLen(_)
SumLen(opts) ==
    IF opts = <<>> THEN 0 ELSE Len(Head(opts).dependents) + SumLen(Tail(opts))

\* lines 227-230: text.count("<option") and text.count("<dependent"); the
\* second also counts the root tag <dependents
SummaryTable(orig, cleaned) ==
    [option_count    |-> <<Len(orig.options), Len(cleaned.options)>>,
     dependent_count |-> <<SumLen(orig.options) + 1, SumLen(cleaned.options) + 1>>]

\* lines 245-256: dependents signature -> names of the original options carrying it
OriginalMap(root) ==
    [k \in {Signature(root.options[i]) : i \in DOMAIN root.options} |->
        UNION {Range(SplitStrip(root.options[i].name)) :
                 i \in {j \in DOMAIN root.options : Signature(root.options[j]) = k}}]

\* lines 276-287
Status(names, original_names) ==
    IF Cardinality(original_names) > 1 /\ Len(names) = 1 THEN "Merged"
    ELSE IF Len(names) > 1 THEN "Split"
    ELSE IF original_names = {names[1]} THEN "Unchanged"
    ELSE "Modified"

\* lines 264-297, for the cleaned option number g
OptionRows(opt, g, original_map) ==
    LET names  == SplitStrip(opt.name)
        values == SplitStrip(opt.value)
        key    == Signature(opt)
        original_names == IF key \in DOMAIN original_map THEN original_map[key] ELSE {}
    IN  [i \in DOMAIN names |->
            [group  |-> g,
             name   |-> names[i],
             value  |-> IF i <= Len(values) THEN values[i] ELSE values[Len(values)],
             deps   |-> key,
             status |-> Status(names, original_names)]]

RECURSIVE RowsFrom(_, _, _)
RowsFrom(opts, g, original_map) ==
    IF g > Len(opts) THEN <<>>
    ELSE OptionRows(opts[g], g, original_map) \o RowsFrom(opts, g + 1, original_map)

ExportRows(orig, cleaned) == RowsFrom(cleaned.options, 1, OriginalMap(orig))

-----------------------------------------------------------------------------
(* AIEngine *)

\* AIEngine.__init__
NewEngine(s) ==
    [openai_client |-> s.OPENAI_API_KEY, grok_client |-> s.GROK_API_KEY,
     active_model |-> "None"]

\* response.choices[0].message.content for an answered call
Content(outcome) == IF outcome = "nocontent" THEN None ELSE Some(outcome)

\* AIEngine.generate: the text returned and the model recorded
Generate(engine, openai, grok) ==
    IF engine.openai_client /\ openai # "raises"
    THEN [text |-> Content(openai), active_model |-> "OpenAI"]
    ELSE IF engine.grok_client
    THEN IF grok # "raises"
         THEN [text |-> Content(grok), active_model |-> "Grok"]
         ELSE [text |-> Some("grokerror"), active_model |-> engine.active_model]
    ELSE [text |-> Some("novalid"), active_model |-> engine.active_model]

\* lines 339-346: how the returned text is shown
Display(text) ==
    IF text = None THEN "error:AI call error"
    ELSE IF text[1] \in {"grokerror", "errortext"} THEN "error:text"
    ELSE "code:text"

-----------------------------------------------------------------------------
(* The script *)

InitWith(S, U) ==
    /\ pc = "load"
    /\ secrets \in S
    /\ uploaded \in {None} \cup {Some(u) : u \in U}
    /\ llm = None
    /\ original_root = None
    /\ original_options = <<>>
    /\ flat = <<>>
    /\ value_to_dep_map = <<>>
    /\ forced_singletons = {}
    /\ groups = <<>>
    /\ appearance_order = 0
    /\ placed = <<>>
    /\ groups_ordered = <<>>
    /\ cleaned_xml = None
    /\ error = None
    /\ summary = None
    /\ download = FALSE
    /\ export_rows = None
    /\ ai_out = "none"

\* a deployment where the engine loads and both keys are set
KeysSet == {s \in AllSecrets : s.import_ok /\ s.OPENAI_API_KEY /\ s.GROK_API_KEY}

Init == InitWith(KeysSet, Uploads)

\* every state of the AI layer, on the smaller uploads
InitAI == InitWith(AllSecrets, UploadsAI)

\* generate_clean_xml_from_root returns or raises: its locals are gone
LocalsDropped ==
    /\ original_options' = <<>>
    /\ flat' = <<>>
    /\ value_to_dep_map' = <<>>
    /\ forced_singletons' = {}
    /\ groups' = <<>>
    /\ appearance_order' = 0
    /\ placed' = <<>>
    /\ groups_ordered' = <<>>

\* lines 8-12
LoadEngine ==
    /\ pc = "load"
    /\ llm' = IF secrets.import_ok THEN Some(NewEngine(secrets)) ELSE None
    /\ pc' = "upload"
    /\ UNCHANGED <<secrets, uploaded, original_root, original_options, flat,
                   value_to_dep_map, forced_singletons, groups, appearance_order,
                   placed, groups_ordered, cleaned_xml, error, summary, download,
                   export_rows, ai_out>>

\* a parse step that swallows a malformed text into an empty root
ParseUploadLenient ==
    /\ pc = "upload"
    /\ IF uploaded = None
       THEN pc' = "summary" /\ UNCHANGED original_root
       ELSE /\ original_root' = IF uploaded[1].wellformed THEN uploaded
                                ELSE Some(Document(<<>>))
            /\ pc' = "read"
    /\ UNCHANGED <<secrets, llm, uploaded, original_options, flat,
                   value_to_dep_map, forced_singletons, groups, appearance_order,
                   placed, groups_ordered, cleaned_xml, error, summary, download,
                   export_rows, ai_out>>

\* lines 204-212: read the upload and parse it
ParseUpload ==
    /\ pc = "upload"
    /\ IF uploaded = None
       THEN pc' = "summary" /\ UNCHANGED <<original_root, error>>
       ELSE IF ~uploaded[1].wellformed
       THEN /\ error' = Some("ParseError")
            /\ pc' = "summary"
            /\ UNCHANGED original_root
       ELSE /\ original_root' = uploaded
            /\ pc' = "read"
            /\ UNCHANGED error
    /\ UNCHANGED <<secrets, llm, uploaded, original_options, flat,
                   value_to_dep_map, forced_singletons, groups, appearance_order,
                   placed, groups_ordered, cleaned_xml, summary, download,
                   export_rows, ai_out>>

\* lines 93-108
ReadOptions ==
    /\ pc = "read"
    /\ original_options' =
         [i \in DOMAIN original_root[1].options |-> OptionRecord(original_root[1].options[i])]
    /\ pc' = "flatten"
    /\ UNCHANGED <<secrets, llm, uploaded, original_root, flat,
                   value_to_dep_map, forced_singletons, groups, appearance_order,
                   placed, groups_ordered, cleaned_xml, error, summary, download,
                   export_rows, ai_out>>

\* lines 110-130; the IndexError of line 119 is caught at line 221
Flatten ==
    /\ pc = "flatten"
    /\ IF \A i \in DOMAIN original_options : CanPair(original_options[i])
       THEN /\ flat' = FlattenAll(original_options)
            /\ value_to_dep_map' = ValueMap(flat')
            /\ pc' = "forced"
            /\ UNCHANGED <<error, original_options, forced_singletons, groups,
                           appearance_order, placed, groups_ordered>>
       ELSE /\ error' = Some("IndexError")
            /\ pc' = "summary"
            /\ LocalsDropped
    /\ UNCHANGED <<secrets, llm, uploaded, original_root, cleaned_xml, summary,
                   download, export_rows, ai_out>>

\* line 134
IdentifyForced ==
    /\ pc = "forced"
    /\ forced_singletons' = ForcedSingletons(value_to_dep_map)
    /\ pc' = "bucket"
    /\ UNCHANGED <<secrets, llm, uploaded, original_root, original_options, flat,
                   value_to_dep_map, groups, appearance_order,
                   placed, groups_ordered, cleaned_xml, error, summary, download,
                   export_rows, ai_out>>

\* lines 140-159: one iteration of "for entry in flat"
Bucket ==
    /\ pc = "bucket"
    /\ Len(placed) < Len(flat)
    /\ LET entry == flat[Len(placed) + 1]
           key   == GroupKey(entry, forced_singletons)
       IN  /\ groups' = AddToGroups(groups, key, entry, appearance_order)
           /\ appearance_order' =
                IF key \in DOMAIN groups THEN appearance_order ELSE appearance_order + 1
           /\ placed' = Append(placed, key)
    /\ UNCHANGED <<pc, secrets, llm, uploaded, original_root, original_options, flat,
                   value_to_dep_map, forced_singletons,
                   groups_ordered, cleaned_xml, error, summary, download,
                   export_rows, ai_out>>

\* line 163; the KeyError is caught at line 221
SortGroups ==
    /\ pc = "bucket"
    /\ Len(placed) = Len(flat)
    /\ IF SortKeyExists(groups)
       THEN /\ groups_ordered' = SortedByFirstAppearance(groups)
            /\ pc' = "build"
            /\ UNCHANGED <<error, original_options, flat, value_to_dep_map,
                           forced_singletons, groups, appearance_order, placed>>
       ELSE /\ error' = Some("KeyError")
            /\ pc' = "summary"
            /\ LocalsDropped
    /\ UNCHANGED <<secrets, llm, uploaded, original_root, cleaned_xml, summary,
                   download, export_rows, ai_out>>

\* lines 165-195 and the assignment of line 213
BuildCleaned ==
    /\ pc = "build"
    /\ cleaned_xml' = Some(BuildTree(groups_ordered))
    /\ pc' = "summary"
    /\ LocalsDropped
    /\ UNCHANGED <<secrets, llm, uploaded, original_root, error, summary, download,
                   export_rows, ai_out>>

\* lines 225-231
Summary ==
    /\ pc = "summary"
    /\ summary' = IF uploaded # None /\ cleaned_xml # None
                  THEN Some(SummaryTable(original_root[1], cleaned_xml[1]))
                  ELSE summary
    /\ pc' = "download"
    /\ UNCHANGED <<secrets, llm, uploaded, original_root, original_options, flat,
                   value_to_dep_map, forced_singletons, groups, appearance_order,
                   placed, groups_ordered, cleaned_xml, error, download,
                   export_rows, ai_out>>

\* lines 234-235
Download ==
    /\ pc = "download"
    /\ download' = (cleaned_xml # None)
    /\ pc' = "mapping"
    /\ UNCHANGED <<secrets, llm, uploaded, original_root, original_options, flat,
                   value_to_dep_map, forced_singletons, groups, appearance_order,
                   placed, groups_ordered, cleaned_xml, error, summary,
                   export_rows, ai_out>>

\* line 238
MappingGuard == cleaned_xml # None /\ uploaded # None

\* lines 238-316
Mapping ==
    /\ pc = "mapping"
    /\ export_rows' = IF MappingGuard
                      THEN Some(ExportRows(uploaded[1], cleaned_xml[1]))
                      ELSE export_rows
    /\ pc' = "ai"
    /\ UNCHANGED <<secrets, llm, uploaded, original_root, original_options, flat,
                   value_to_dep_map, forced_singletons, groups, appearance_order,
                   placed, groups_ordered, cleaned_xml, error, summary, download,
                   ai_out>>

\* line 322: the button is not pressed in this run
NoSuggest ==
    /\ pc = "ai"
    /\ pc' = "done"
    /\ UNCHANGED <<secrets, llm, uploaded, original_root, original_options, flat,
                   value_to_dep_map, forced_singletons, groups, appearance_order,
                   placed, groups_ordered, cleaned_xml, error, summary, download,
                   export_rows, ai_out>>

\* lines 322-346: the button is pressed
Suggest ==
    /\ pc = "ai"
    /\ pc' = "done"
    /\ IF cleaned_xml = None
       THEN ai_out' = "warning:no cleaned XML" /\ UNCHANGED llm
       ELSE IF llm = None
       THEN ai_out' = "warning:no AI engine" /\ UNCHANGED llm
       ELSE \E openai \in AIOutcomes, grok \in AIOutcomes :
              LET r == Generate(llm[1], openai, grok) IN
              /\ llm' = Some([llm[1] EXCEPT !.active_model = r.active_model])
              /\ ai_out' = Display(r.text)
    /\ UNCHANGED <<secrets, uploaded, original_root, original_options, flat,
                   value_to_dep_map, forced_singletons, groups, appearance_order,
                   placed, groups_ordered, cleaned_xml, error, summary, download,
                   export_rows>>

Next ==
    \/ LoadEngine
    \/ ParseUpload
    \/ ReadOptions
    \/ Flatten
    \/ IdentifyForced
    \/ Bucket
    \/ SortGroups
    \/ BuildCleaned
    \/ Summary
    \/ Download
    \/ Mapping
    \/ NoSuggest
    \/ Suggest

Spec == Init /\ [][Next]_vars

SpecAI == InitAI /\ [][Next]_vars

-----------------------------------------------------------------------------
(* Vocabulary of the properties *)

WellFormed == uploaded # None /\ uploaded[1].wellformed

InputOptions == uploaded[1].options

\* the script is past the try block of lines 211-222
AfterTry == pc \in {"summary", "download", "mapping", "ai", "done"}

\* the bucketing loop has placed every entry of a non-empty flat list
BucketingDone == flat # <<>> /\ Len(placed) = Len(flat)

NamesOf(opt) == _split_field(opt.name)

ValuesOf(opt) == _split_field(opt.value)

\* the dependents of an <option>, as a set of (id, name)
DepSet(opt) == Range(opt.dependents)

IdSet(opt) == {d.id : d \in DepSet(opt)}

\* the "id:name" strings of the dependents of an <option>
OptionSigs(opt) == {DepSig(d) : d \in DepSet(opt)}

\* the "id:name" strings a bucket stores
StoredSigs(k) == Range(groups[k].dependents)

RECURSIVE SourceFrom(_, _)
SourceFrom(opts, k) ==
    IF k > Len(opts) THEN <<>>
    ELSE [i \in 1..Len(NamesOf(opts[k])) |-> k] \o SourceFrom(opts, k + 1)

\* Source[i] is the number of the <option> that entry i was exploded from
Source == SourceFrom(InputOptions, 1)

\* the entries placed in bucket k, in the order they were placed
RECURSIVE MembersFrom(_, _)
MembersFrom(k, i) ==
    IF i > Len(placed) THEN <<>>
    ELSE (IF placed[i] = k THEN <<flat[i]>> ELSE <<>>) \o MembersFrom(k, i + 1)

\* the value is carried by more than one entry of the input
Repeated(v) == Cardinality({m \in DOMAIN flat : flat[m].value = v}) > 1

Named == \E k \in DOMAIN InputOptions : NamesOf(InputOptions[k]) # <<>>

\* every option that has a name has a value
Valued ==
    \A k \in DOMAIN InputOptions :
        NamesOf(InputOptions[k]) = <<>> \/ ValuesOf(InputOptions[k]) # <<>>

RECURSIVE AllNames(_)
AllNames(opts) ==
    IF opts = <<>> THEN <<>> ELSE NamesOf(Head(opts)) \o AllNames(Tail(opts))

RECURSIVE AllDependents(_)
AllDependents(opts) ==
    IF opts = <<>> THEN <<>> ELSE Head(opts).dependents \o AllDependents(Tail(opts))

\* the label of the first <dependent> with this id, in document order
FirstLabel(id) ==
    LET all == AllDependents(InputOptions)
        first == CHOOSE i \in DOMAIN all :
                    all[i].id = id /\ \A j \in 1..(i - 1) : all[j].id # id
    IN  all[first].name

\* the exception the names and values of the upload lead to, whatever the
\* labels of its dependents
ErrorOf(u) ==
    IF ~u.wellformed THEN Some("ParseError")
    ELSE IF \E k \in DOMAIN u.options :
               NamesOf(u.options[k]) # <<>> /\ ValuesOf(u.options[k]) = <<>>
    THEN Some("IndexError")
    ELSE IF \E k \in DOMAIN u.options : NamesOf(u.options[k]) # <<>>
    THEN Some("KeyError")
    ELSE None

LabelsNeverRaise == (uploaded # None /\ AfterTry) => error = ErrorOf(uploaded[1])

RECURSIVE FirstOccurrences(_, _)
\* the distinct elements of a sequence, in the order they first occur
FirstOccurrences(s, seen) ==
    IF s = <<>> THEN <<>>
    ELSE IF Head(s) \in seen THEN FirstOccurrences(Tail(s), seen)
    ELSE <<Head(s)>> \o FirstOccurrences(Tail(s), seen \cup {Head(s)})

-----------------------------------------------------------------------------
(* C1 *)

\* C1: dependency-set invariant.  After every iteration of the bucketing
\* loop, and in the emitted document, every entry placed in a bucket came
\* from an option whose dependents are, as a set, the dependents the bucket
\* stores and emits; a bucket's names and values are exactly those of the
\* entries placed in it; no bucket holds two entries with different
\* dependency sets.
C1_DependencySetInvariant ==
    /\ LET src == Source IN
       /\ \A i \in DOMAIN placed :
             /\ placed[i] \in DOMAIN groups
             /\ StoredSigs(placed[i]) = OptionSigs(InputOptions[src[i]])
       /\ \A i, j \in DOMAIN placed :
             placed[i] = placed[j] =>
                OptionSigs(InputOptions[src[i]]) = OptionSigs(InputOptions[src[j]])
    /\ \A k \in DOMAIN groups :
          LET members == MembersFrom(k, 1) IN
          /\ groups[k].names = [m \in DOMAIN members |-> members[m].name]
          /\ groups[k].values = [m \in DOMAIN members |-> members[m].value]
    /\ cleaned_xml # None =>
          LET entries == FlattenAll([k \in DOMAIN InputOptions |->
                                       OptionRecord(InputOptions[k])])
              src == Source
          IN  \A g \in DOMAIN cleaned_xml[1].options :
                 \A n \in Range(NamesOf(cleaned_xml[1].options[g])) :
                    \E i \in DOMAIN entries :
                       /\ entries[i].name = n
                       /\ DepSet(InputOptions[src[i]]) = DepSet(cleaned_xml[1].options[g])

\* a bucket holding entries of two options that list the same dependents in
\* different document orders
C1_Witness ==
    LET src == Source IN
    \E i, j \in DOMAIN placed :
        /\ placed[i] = placed[j]
        /\ src[i] # src[j]
        /\ InputOptions[src[i]].dependents # InputOptions[src[j]].dependents

-----------------------------------------------------------------------------
(* C2 *)

-----------------------------------------------------------------------------
(* C7 *)

-----------------------------------------------------------------------------
(* C9 *)

\* C9: a malformed upload is reported with the parser's error and leaves
\* cleaned_xml unset, so no summary, download or mapping report is produced
\* and the AI block has no cleaned document to send; in every run the
\* mapping report exists only if the cleaned document does.
C9_MalformedInput ==
    /\ (uploaded # None /\ ~uploaded[1].wellformed /\ AfterTry) =>
          /\ error = Some("ParseError")
          /\ cleaned_xml = None
          /\ summary = None
          /\ ~download
          /\ export_rows = None
          /\ ai_out \in {"none", "warning:no cleaned XML"}
    /\ export_rows # None => cleaned_xml # None

\* a malformed upload, run to the end with the AI button pressed
C9_Witness ==
    /\ uploaded # None /\ ~uploaded[1].wellformed
    /\ pc = "done"
    /\ ai_out = "warning:no cleaned XML"

-----------------------------------------------------------------------------
(* C5 *)

RECURSIVE ClaimedPairs(_)
\* the (name, value) pairs of the alignment rule: position by position, the
\* last value once the values run out, "" when there is no value
ClaimedPairs(opts) ==
    IF opts = <<>> THEN <<>>
    ELSE LET n == NamesOf(Head(opts))
             v == ValuesOf(Head(opts))
         IN  [i \in DOMAIN n |->
                <<n[i], IF v = <<>> THEN ""
                        ELSE IF i <= Len(v) THEN v[i] ELSE v[Len(v)]>>]
             \o ClaimedPairs(Tail(opts))

FlatPairs == [i \in DOMAIN flat |-> <<flat[i].name, flat[i].value>>]

\* C5: name/value alignment.  Exploding pairs name i with value i, with the
\* last value when the values run out and with "" when there is no value,
\* and never raises: once the explosion step is over there is no IndexError
\* and the entries are the pairs of the rule.
C5_NameValueAlignment ==
    /\ error # Some("IndexError")
    /\ pc \in {"forced", "bucket", "build"} => FlatPairs = ClaimedPairs(InputOptions)

\* The part of C5 that the code keeps: whenever the explosion step
\* completes, the entries are the pairs of the rule.
C5_AlignmentWhenCompleted ==
    pc \in {"forced", "bucket", "build"} => FlatPairs = ClaimedPairs(InputOptions)

-----------------------------------------------------------------------------
(* C6 *)

\* the options the claims expect for a root: one per bucket key, in the
\* order the keys are first seen in the scan of the exploded entries
ExpectedOptions(root) ==
    LET entries == FlattenAll([k \in DOMAIN root.options |-> OptionRecord(root.options[k])])
        forced  == {v \in {entries[i].value : i \in DOMAIN entries} :
                      Cardinality({i \in DOMAIN entries : entries[i].value = v}) > 1}
        keys    == [i \in DOMAIN entries |-> GroupKey(entries[i], forced)]
        order   == FirstOccurrences(keys, {})
    IN  [g \in DOMAIN order |->
           LET members == SelectSeq(entries, LAMBDA e : GroupKey(e, forced) = order[g]) IN
           [names      |-> [m \in DOMAIN members |-> members[m].name],
            values     |-> [m \in DOMAIN members |-> members[m].value],
            dependents |-> {SplitSig(order[g].deps_key[d]) : d \in DOMAIN order[g].deps_key}]]

\* C6: first-appearance order.  For a well-formed input with a named option
\* the call completes and emits one option per bucket, option g being the
\* g-th distinct key of the scan.  (Taken on inputs whose named options all
\* have values, so that line 119 is not what stops the call.)
C6_FirstAppearanceOrder ==
    (WellFormed /\ AfterTry /\ Named /\ Valued) =>
        /\ cleaned_xml # None
        /\ LET want == ExpectedOptions(uploaded[1])
               got  == cleaned_xml[1].options
           IN  /\ Len(got) = Len(want)
               /\ \A g \in DOMAIN got :
                     /\ got[g].name = Join(Dedup(want[g].names, {}))
                     /\ Range(got[g].dependents) = want[g].dependents

\* The part of C6 that the code keeps: the buckets are numbered, in their
\* "order" field, by the first appearance of their key in the scan.
C6_BucketOrderKept ==
    LET order == FirstOccurrences(placed, {}) IN
    /\ DOMAIN groups = Range(order)
    /\ \A g \in DOMAIN order : groups[order[g]].order = g - 1
    /\ appearance_order = Len(order)

-----------------------------------------------------------------------------
(* C3 *)

\* every option is named and carries the one value v and the same dependents
MergeScenario(v) ==
    /\ WellFormed
    /\ Len(InputOptions) >= 2
    /\ \A k \in DOMAIN InputOptions :
          /\ NamesOf(InputOptions[k]) # <<>>
          /\ ValuesOf(InputOptions[k]) # <<>>
          /\ Range(ValuesOf(InputOptions[k])) = {v}
          /\ DepSet(InputOptions[k]) = DepSet(InputOptions[1])

\* C3: end-to-end merge.  Options that all carry the same dependency set and
\* the same single value come out as one option: every name once in
\* first-occurrence order, the value once, one dependent per distinct id,
\* and every row of the change report Merged.
C3_EndToEndMerge ==
    \A v \in {"1", "2", "3"} :
        (pc = "done" /\ MergeScenario(v)) =>
            /\ cleaned_xml # None
            /\ Len(cleaned_xml[1].options) = 1
            /\ cleaned_xml[1].options[1].name = Join(Dedup(AllNames(InputOptions), {}))
            /\ cleaned_xml[1].options[1].value = <<v>>
            /\ Len(cleaned_xml[1].options[1].dependents) = Cardinality(IdSet(InputOptions[1]))
            /\ IdSet(cleaned_xml[1].options[1]) = IdSet(InputOptions[1])
            /\ export_rows # None
            /\ \A r \in DOMAIN export_rows[1] : export_rows[1][r].status = "Merged"

-----------------------------------------------------------------------------
(* C4 *)

\* C4: idempotence.  For every valid input the emitted options, extracted
\* and grouped again, come out as the same sequence of options.  (Taken on
\* inputs whose named options all have values.)
C4_Idempotence ==
    (pc = "done" /\ WellFormed /\ Valued) =>
        /\ cleaned_xml # None
        /\ CleanOf(cleaned_xml[1]) = cleaned_xml

-----------------------------------------------------------------------------
(* C8 *)

\* two named options with no dependent id and no value in common
NonMergeScenario ==
    /\ WellFormed
    /\ Len(InputOptions) = 2
    /\ \A k \in DOMAIN InputOptions :
          NamesOf(InputOptions[k]) # <<>> /\ ValuesOf(InputOptions[k]) # <<>>
    /\ IdSet(InputOptions[1]) \cap IdSet(InputOptions[2]) = {}
    /\ Range(ValuesOf(InputOptions[1])) \cap Range(ValuesOf(InputOptions[2])) = {}

\* C8: non-merge scenario.  Two options sharing no dependent and no value
\* come out as two options, each with its own names and dependents, and
\* every row of the change report is Unchanged.
C8_NonMerge ==
    (pc = "done" /\ NonMergeScenario) =>
        /\ cleaned_xml # None
        /\ Len(cleaned_xml[1].options) = 2
        /\ \A g \in {1, 2} :
              /\ cleaned_xml[1].options[g].name = Join(Dedup(NamesOf(InputOptions[g]), {}))
              /\ DepSet(cleaned_xml[1].options[g]) = DepSet(InputOptions[g])
        /\ export_rows # None
        /\ \A r \in DOMAIN export_rows[1] : export_rows[1][r].status = "Unchanged"

-----------------------------------------------------------------------------
(* C10 *)

\* what the AI block can leave on the page
AIMessages ==
    {"none", "warning:no cleaned XML", "warning:no AI engine",
     "code:text", "error:text", "error:AI call error"}

\* C10: independence from the AI layer.  For every well-formed upload and
\* every outcome of the AI layer the cleaned document and the change report
\* are computed, and are what the upload alone determines; the AI step
\* changes neither; and it ends in a displayed message.  (Taken on inputs
\* whose named options all have values.)
C10_AIIndependence ==
    /\ [](  (pc = "done" /\ WellFormed /\ Valued) =>
              /\ cleaned_xml # None
              /\ cleaned_xml = CleanOf(uploaded[1])
              /\ export_rows = Some(ExportRows(uploaded[1], cleaned_xml[1]))
              /\ ai_out \in AIMessages )
    /\ [][ pc = "ai" => /\ cleaned_xml' = cleaned_xml
                        /\ export_rows' = export_rows
                        /\ summary' = summary ]_vars

\* The part of C10 that the code keeps, whatever the AI layer does: the
\* cleaned document and the report are what the upload alone determines
\* (unset when the cleaning raised), the AI step changes neither, and it
\* ends in a displayed message.
C10_AILayerFrame ==
    /\ [](  (pc \in {"ai", "done"} /\ uploaded # None) =>
              /\ cleaned_xml = IF uploaded[1].wellformed THEN CleanOf(uploaded[1]) ELSE None
              /\ export_rows = IF cleaned_xml = None THEN None
                               ELSE Some(ExportRows(uploaded[1], cleaned_xml[1]))
              /\ ai_out \in AIMessages )
    /\ [][ pc = "ai" => /\ cleaned_xml' = cleaned_xml
                        /\ export_rows' = export_rows
                        /\ summary' = summary ]_vars

====
